---- MODULE Spec2Model ----
(***************************************************************************)
(* WeatherKI backend: the TTL cache (services/cacheService.ts), the        *)
(* weather lookup service (services/weatherService.ts), the Gemini AI      *)
(* controller (controllers/geminiAIController.ts) and the widget           *)
(* controller (controllers/widgetController.ts, models/Widget.ts).         *)
(*                                                                         *)
(* Time: Date.now() is modelled by the variable now.  One model time unit  *)
(* is half of the 5 minute cache duration (150 000 ms), so a duration of   *)
(* 5 * 60 * 1000 ms is 2 units; ages 0, 1 (fresh), 2 (exactly the          *)
(* duration) and 3 or more (older) are all distinguished.                  *)
(*                                                                         *)
(* Node runs handlers on one thread: a handler runs without interruption   *)
(* up to its next await, so every action below is the code between two     *)
(* awaits of one handler (or one whole synchronous method).                *)
(***************************************************************************)
EXTENDS Integers, Sequences, FiniteSets, TLC

VARIABLES
  now,            \* Date.now(), in model time units
  \* ---- CacheService used directly (SpecCache)
  cache,          \* CacheService.cache : Map<string, CachedItem>
  lastOp,         \* the call made at the current instant, what it found (found, age; prev =
                  \* prevGetExpired before it) and what it returned
  lastSet,        \* history: per key, the last set not followed by delete/clear
  prevGetExpired, \* history: key of the preceding call if it was a get that found an expired entry
  before,         \* history: the map as the call in lastOp found it
  lastRet,        \* what the call in lastOp returned, when it is getStats or getAllValid
  ninserted,      \* history: number of set calls that stored a key not in the map
  ndeleted,       \* history: number of entries removed by delete and clear
  nevicted,       \* history: number of entries removed because expired (get, has, clearExpired)
  stopRequested,  \* the owner of the cache is done with it
  \* ---- WeatherService (SpecWeather)
  wcache,         \* WeatherService.cacheService.cache
  wpc, wloc, wgeo, wresult, werror,  \* per lookup: position, argument, geocode result, returned snapshot, thrown error
  wnet,           \* history: the lookup has issued a network call
  wstored,        \* history: the lookup has called cacheService.set
  wevicted,       \* history: the lookup's initial get evicted an entry
  wothers,        \* history: another lookup stored this lookup's key since it started
  wclear,         \* the POST /api/weather/cache/clear handled at the preceding step, if any:
                  \* its status and how many entries its sweep removed
  wafter,         \* history: per lookup served from the cache, the wclear it found when received
  lastOk,         \* history: per key, the last snapshot stored by a successful lookup
  \* ---- WeatherService.getWeatherIcon, getWeatherDescription (SpecCodes)
  qderived,       \* a forecast has been turned into an icon and a description
  qcode,          \* current.weather_code of that forecast
  qicon,          \* getWeatherIcon(current.weather_code)
  qdescription,   \* getWeatherDescription(current.weather_code)
  \* ---- GeminiAIController (SpecAI)
  aiCache,        \* GeminiAIController.aiCache : Map<string, {data, timestamp}>
  apc, akind, abody,   \* per request: position, request kind, body as sent
  akey,           \* cacheKey
  alocs,          \* req.body.locations as the handler holds it (sorted in place by the summary kind)
  aresults,       \* weatherResults, per location: "pending", "data" or "null"
  acontext,       \* the per-location parts of the weather context put into the prompt
  astatus, atext, \* the response: HTTP status and text
  afailed,        \* history: the request's provider call failed
  acalls,         \* history: number of provider calls issued by the request
  alooked,        \* history: number of weather lookups issued by the request
  ahit,           \* history: the entry found live under the request's key when it was received
  lastGen,        \* history: the last summary request answered by the provider
  aothers,        \* history: another request has stored the request's key since it was received
  areceived,      \* number of AI requests received so far
  \* ---- WidgetController (SpecWidget)
  widgets,        \* the Widget collection
  nextId,         \* next ObjectId the store hands out
  cpc, cinput,    \* per create request: position, req.body.location
  ctrimmed,       \* trimmedLocation
  cstatus,        \* the response status
  cdup,           \* history: when findOne ran, a stored location equalled trimmedLocation ignoring case
  csaved,         \* history: the widgets the request has inserted
  dpc, dop, did,  \* per read-by-id / delete-by-id request: position, handler, req.params.id
  dstatus, dbody, \* the response: status and the widget sent back
  dqueried,       \* history: the request has sent a query to the store
  dbefore         \* history: the collection as the request's query found it

cacheVars   == <<cache, lastOp, lastSet, prevGetExpired, before, lastRet,
                 ninserted, ndeleted, nevicted, stopRequested>>
weatherVars == <<wcache, wpc, wloc, wgeo, wresult, werror, wnet, wstored, wevicted, wothers,
                 wclear, wafter, lastOk>>
aiVars      == <<aiCache, apc, akind, abody, akey, alocs, aresults, acontext, astatus, atext,
                 afailed, acalls, alooked, ahit, lastGen, aothers, areceived>>
createVars  == <<cpc, cinput, ctrimmed, cstatus, cdup, csaved>>
byIdVars    == <<dpc, dop, did, dstatus, dbody, dqueried, dbefore>>
widgetVars  == <<widgets, nextId, createVars, byIdVars>>
codeVars    == <<qderived, qcode, qicon, qdescription>>
vars        == <<now, cacheVars, weatherVars, codeVars, aiVars, widgetVars>>

-----------------------------------------------------------------------------
(* Bounds of the model *)

\* The clock stops at MaxTime.
MaxTime == 3

\* At most MaxInserts set calls store a key that is not in the map.
MaxInserts == 3

\* The weather codes tried are the integers from -MaxCode to MaxCode.
MaxCode == 101

\* At most MaxAIRequests AI requests are received.
MaxAIRequests == 2

\* The clock of the AI controller's runs stops at MaxAITime, the age at which
\* an AI cache entry is no longer served.
MaxAITime == 2

\* The widget store hands out at most MaxWidgets ids.
MaxWidgets == 3

-----------------------------------------------------------------------------
(* Program constants *)

\* cacheDurationMs default 5 * 60 * 1000 (cacheService.ts:11, weatherService.ts:25), in model time units
CacheDuration == 2

\* GeminiAIController.CACHE_TTL = 5 * 60 * 1000, in model time units
CACHE_TTL == 2

\* WidgetSchema.location.minlength / maxlength
MinLength == 2
MaxLength == 100

-----------------------------------------------------------------------------
(* Map<string, X> as a function whose domain is the set of stored keys *)

EmptyMap == [k \in {} |-> 0]

MapSet(m, k, item) == [x \in (DOMAIN m) \cup {k} |-> IF x = k THEN item ELSE m[x]]

MapDelete(m, k) == [x \in (DOMAIN m) \ {k} |-> m[x]]

\* the value a lookup returns for "no value" (null)
Null == "null"

-----------------------------------------------------------------------------
(* CacheService<T>: each method as a function of the map and of Date.now() *)

isExpiredAtDuration(item, t) == (t - item.timestamp) >= CacheDuration

isExpired(item, t) == (t - item.timestamp) > CacheDuration

CachedItem(k, d, t) == [data |-> d, timestamp |-> t, key |-> k]

setDataInPlace(m, k, d, t) ==
  IF k \in DOMAIN m THEN MapSet(m, k, CachedItem(k, d, m[k].timestamp))
  ELSE MapSet(m, k, CachedItem(k, d, t))

\* set(key, data): the resulting map
set(m, k, d, t) == MapSet(m, k, CachedItem(k, d, t))


getKeepsExpired(m, k, t) ==
  IF k \notin DOMAIN m THEN [present |-> FALSE, data |-> Null, cache |-> m]
  ELSE IF isExpired(m[k], t) THEN [present |-> FALSE, data |-> Null, cache |-> m]
  ELSE [present |-> TRUE, data |-> m[k].data, cache |-> m]

\* get(key): the value returned (present = a non-null return) and the resulting map
get(m, k, t) ==
  IF k \notin DOMAIN m THEN [present |-> FALSE, data |-> Null, cache |-> m]
  ELSE IF isExpired(m[k], t) THEN [present |-> FALSE, data |-> Null, cache |-> MapDelete(m, k)]
  ELSE [present |-> TRUE, data |-> m[k].data, cache |-> m]

\* has(key): the boolean returned and the resulting map
has(m, k, t) ==
  IF k \notin DOMAIN m THEN [ret |-> FALSE, cache |-> m]
  ELSE IF isExpired(m[k], t) THEN [ret |-> FALSE, cache |-> MapDelete(m, k)]
  ELSE [ret |-> TRUE, cache |-> m]

deleteChecksAfter(m, k) == [ret |-> k \in DOMAIN MapDelete(m, k), cache |-> MapDelete(m, k)]

\* delete(key): the boolean returned and the resulting map
delete(m, k) == [ret |-> k \in DOMAIN m, cache |-> MapDelete(m, k)]

\* clear()
clear(m) == EmptyMap

clearExpiredAtDuration(m, t) == [k \in {x \in DOMAIN m : ~isExpiredAtDuration(m[x], t)} |-> m[k]]

\* clearExpired(): deleting during the iteration of a Map visits every entry once
clearExpired(m, t) == [k \in {x \in DOMAIN m : ~isExpired(m[x], t)} |-> m[k]]

getStatsTotalIsValid(m, t) ==
  [totalItems |-> Cardinality({k \in DOMAIN m : ~isExpired(m[k], t)}),
   validItems |-> Cardinality({k \in DOMAIN m : ~isExpired(m[k], t)}),
   expiredItems |-> Cardinality({k \in DOMAIN m : isExpired(m[k], t)}),
   cacheDurationMs |-> CacheDuration]

\* getStats(): the counts and the duration of the returned object (its
\* cacheDurationMinutes and timestamp fields repeat the duration and the clock)
getStats(m, t) ==
  [totalItems |-> Cardinality(DOMAIN m),
   validItems |-> Cardinality({k \in DOMAIN m : ~isExpired(m[k], t)}),
   expiredItems |-> Cardinality({k \in DOMAIN m : isExpired(m[k], t)}),
   cacheDurationMs |-> CacheDuration]

getAllValidAtDuration(m, t) ==
  {[key |-> k, data |-> m[k].data, age |-> t - m[k].timestamp] :
     k \in {x \in DOMAIN m : ~isExpiredAtDuration(m[x], t)}}

\* getAllValid(): the elements of the returned array
getAllValid(m, t) ==
  {[key |-> k, data |-> m[k].data, age |-> t - m[k].timestamp] :
     k \in {x \in DOMAIN m : ~isExpired(m[x], t)}}

-----------------------------------------------------------------------------
(* SpecCache: one CacheService<string> driven by arbitrary calls *)

Keys == {"k1", "k2"}
Vals == {"v1", "v2"}

NoOp == [op |-> "none", key |-> "-", present |-> FALSE, data |-> Null,
         found |-> FALSE, age |-> 0, prev |-> "-"]

NoSet == [valid |-> FALSE, data |-> Null, at |-> 0]

NoStats == [totalItems |-> 0, validItems |-> 0, expiredItems |-> 0, cacheDurationMs |-> 0]

\* no getStats or getAllValid return to record
NoRet == [stats |-> NoStats, valid |-> {}]

\* what a call found under its key before it ran
Found(k) == k \in DOMAIN cache
AgeOf(k) == IF k \in DOMAIN cache THEN now - cache[k].timestamp ELSE 0

Op(name, k, present, data) ==
  [op |-> name, key |-> k, present |-> present, data |-> data,
   found |-> Found(k), age |-> AgeOf(k), prev |-> prevGetExpired]

\* the entries a call removes from the map
RemovedBy(m, after) == Cardinality((DOMAIN m) \ (DOMAIN after))

Tick ==
  /\ now < MaxTime
  /\ now' = now + 1
  /\ lastOp' = NoOp
  /\ before' = EmptyMap
  /\ lastRet' = NoRet
  /\ UNCHANGED <<cache, lastSet, prevGetExpired, ninserted, ndeleted, nevicted, stopRequested>>

Set(k, v) ==
  /\ k \notin DOMAIN cache => ninserted < MaxInserts
  /\ cache' = set(cache, k, v, now)
  /\ lastOp' = Op("set", k, FALSE, Null)
  /\ lastSet' = [lastSet EXCEPT ![k] = [valid |-> TRUE, data |-> v, at |-> now]]
  /\ prevGetExpired' = "-"
  /\ before' = cache
  /\ lastRet' = NoRet
  /\ ninserted' = IF k \in DOMAIN cache THEN ninserted ELSE ninserted + 1
  /\ UNCHANGED <<now, ndeleted, nevicted, stopRequested>>

Get(k) ==
  LET r == get(cache, k, now) IN
  /\ cache' = r.cache
  /\ lastOp' = Op("get", k, r.present, r.data)
  /\ prevGetExpired' = IF Found(k) /\ AgeOf(k) > CacheDuration THEN k ELSE "-"
  /\ before' = cache
  /\ lastRet' = NoRet
  /\ nevicted' = nevicted + RemovedBy(cache, r.cache)
  /\ UNCHANGED <<now, lastSet, ninserted, ndeleted, stopRequested>>

Has(k) ==
  LET r == has(cache, k, now) IN
  /\ cache' = r.cache
  /\ lastOp' = Op("has", k, r.ret, Null)
  /\ prevGetExpired' = "-"
  /\ before' = cache
  /\ lastRet' = NoRet
  /\ nevicted' = nevicted + RemovedBy(cache, r.cache)
  /\ UNCHANGED <<now, lastSet, ninserted, ndeleted, stopRequested>>

Delete(k) ==
  LET r == delete(cache, k) IN
  /\ cache' = r.cache
  /\ lastOp' = Op("delete", k, r.ret, Null)
  /\ lastSet' = [lastSet EXCEPT ![k] = NoSet]
  /\ prevGetExpired' = "-"
  /\ before' = cache
  /\ lastRet' = NoRet
  /\ ndeleted' = ndeleted + RemovedBy(cache, r.cache)
  /\ UNCHANGED <<now, ninserted, nevicted, stopRequested>>

Clear ==
  /\ cache' = clear(cache)
  /\ lastOp' = Op("clear", "-", FALSE, Null)
  /\ lastSet' = [k \in Keys |-> NoSet]
  /\ prevGetExpired' = "-"
  /\ before' = cache
  /\ lastRet' = NoRet
  /\ ndeleted' = ndeleted + RemovedBy(cache, clear(cache))
  /\ UNCHANGED <<now, ninserted, nevicted, stopRequested>>

SweepTimerIdle ==
  /\ lastOp' = Op("clearExpired", "-", FALSE, Null)
  /\ prevGetExpired' = "-"
  /\ before' = cache
  /\ lastRet' = NoRet
  /\ UNCHANGED <<now, cache, lastSet, ninserted, ndeleted, nevicted, stopRequested>>

\* the setInterval callback of the constructor: the handle setInterval returns
\* is not kept, so nothing the program does disables this action
SweepTimer ==
  /\ cache' = clearExpired(cache, now)
  /\ lastOp' = Op("clearExpired", "-", FALSE, Null)
  /\ prevGetExpired' = "-"
  /\ before' = cache
  /\ lastRet' = NoRet
  /\ nevicted' = nevicted + RemovedBy(cache, clearExpired(cache, now))
  /\ UNCHANGED <<now, lastSet, ninserted, ndeleted, stopRequested>>

GetStats ==
  /\ lastOp' = Op("getStats", "-", FALSE, Null)
  /\ prevGetExpired' = "-"
  /\ before' = cache
  /\ lastRet' = [NoRet EXCEPT !.stats = getStats(cache, now)]
  /\ UNCHANGED <<now, cache, lastSet, ninserted, ndeleted, nevicted, stopRequested>>

GetAllValid ==
  /\ lastOp' = Op("getAllValid", "-", FALSE, Null)
  /\ prevGetExpired' = "-"
  /\ before' = cache
  /\ lastRet' = [NoRet EXCEPT !.valid = getAllValid(cache, now)]
  /\ UNCHANGED <<now, cache, lastSet, ninserted, ndeleted, nevicted, stopRequested>>

\* the owner of the cache is done with it (process shutdown, end of a test):
\* CacheService has no method to call for this and nothing in it changes
Shutdown ==
  /\ ~stopRequested
  /\ stopRequested' = TRUE
  /\ lastOp' = NoOp
  /\ prevGetExpired' = "-"
  /\ before' = EmptyMap
  /\ lastRet' = NoRet
  /\ UNCHANGED <<now, cache, lastSet, ninserted, ndeleted, nevicted>>

InitCache ==
  /\ cache = EmptyMap
  /\ lastOp = NoOp
  /\ lastSet = [k \in Keys |-> NoSet]
  /\ prevGetExpired = "-"
  /\ before = EmptyMap
  /\ lastRet = NoRet
  /\ ninserted = 0
  /\ ndeleted = 0
  /\ nevicted = 0
  /\ stopRequested = FALSE

-----------------------------------------------------------------------------
(* Strings whose characters matter are sequences of one-character strings *)

LowerChar(c) ==
  CASE c = "A" -> "a"
    [] c = "B" -> "b"
    [] c = "P" -> "p"
    [] OTHER -> c

\* String.prototype.toLowerCase
toLowerCase(s) == [i \in 1..Len(s) |-> LowerChar(s[i])]

IsSpace(c) == c = " "

RECURSIVE trimStart(_)
trimStart(s) == IF s # <<>> /\ IsSpace(Head(s)) THEN trimStart(Tail(s)) ELSE s

RECURSIVE trimEnd(_)
trimEnd(s) ==
  IF s # <<>> /\ IsSpace(s[Len(s)]) THEN trimEnd(SubSeq(s, 1, Len(s) - 1)) ELSE s

\* String.prototype.trim
trim(s) == trimEnd(trimStart(s))

-----------------------------------------------------------------------------
(* WeatherService *)

getWeatherIconFogBelow48(weatherCode) ==
  IF weatherCode = 0 THEN "sun"
  ELSE IF weatherCode <= 3 THEN "sun behind cloud"
  ELSE IF weatherCode < 48 THEN "fog"
  ELSE IF weatherCode <= 67 THEN "rain"
  ELSE IF weatherCode <= 77 THEN "snow"
  ELSE IF weatherCode <= 82 THEN "sun behind rain cloud"
  ELSE IF weatherCode <= 99 THEN "thunder cloud"
  ELSE "sun behind small cloud"

\* getWeatherIcon(weatherCode): the emoji, by name
getWeatherIcon(weatherCode) ==
  IF weatherCode = 0 THEN "sun"
  ELSE IF weatherCode <= 3 THEN "sun behind cloud"
  ELSE IF weatherCode <= 48 THEN "fog"
  ELSE IF weatherCode <= 67 THEN "rain"
  ELSE IF weatherCode <= 77 THEN "snow"
  ELSE IF weatherCode <= 82 THEN "sun behind rain cloud"
  ELSE IF weatherCode <= 99 THEN "thunder cloud"
  ELSE "sun behind small cloud"

\* getWeatherDescription(weatherCode): descriptions[weatherCode] || 'Unknown'
getWeatherDescription(weatherCode) ==
  CASE weatherCode = 0 -> "Clear sky"
    [] weatherCode = 1 -> "Mainly clear"
    [] weatherCode = 2 -> "Partly cloudy"
    [] weatherCode = 3 -> "Overcast"
    [] weatherCode = 45 -> "Foggy"
    [] weatherCode = 48 -> "Depositing rime fog"
    [] weatherCode = 51 -> "Light drizzle"
    [] weatherCode = 53 -> "Moderate drizzle"
    [] weatherCode = 55 -> "Dense drizzle"
    [] weatherCode = 61 -> "Slight rain"
    [] weatherCode = 63 -> "Moderate rain"
    [] weatherCode = 65 -> "Heavy rain"
    [] weatherCode = 71 -> "Slight snow"
    [] weatherCode = 73 -> "Moderate snow"
    [] weatherCode = 75 -> "Heavy snow"
    [] weatherCode = 80 -> "Slight rain showers"
    [] weatherCode = 81 -> "Moderate rain showers"
    [] weatherCode = 82 -> "Violent rain showers"
    [] weatherCode = 95 -> "Thunderstorm"
    [] weatherCode = 96 -> "Thunderstorm with hail"
    [] weatherCode = 99 -> "Thunderstorm with heavy hail"
    [] OTHER -> "Unknown"

\* the integer weather codes a forecast is tried with
CodeInputs == (-MaxCode)..MaxCode

InitCodes ==
  /\ qderived = FALSE
  /\ qcode = 0
  /\ qicon = "-"
  /\ qdescription = "-"

\* the icon and the description getWeatherForLocation derives from the
\* forecast's weather code
DeriveFromCode(c) ==
  /\ qderived' = TRUE
  /\ qcode' = c
  /\ qicon' = getWeatherIcon(c)
  /\ qdescription' = getWeatherDescription(c)

cacheKeyNoLowerCase(location) == trim(location)

\* getWeatherForLocation: const cacheKey = location.toLowerCase().trim()
cacheKey(location) == trim(toLowerCase(location))

\* the WeatherData object built from the geocode result and the forecast
\* (temperature, humidity, wind speed and country are carried through and left out)
weatherInfo(geo, code) ==
  [condition |-> getWeatherDescription(code), icon |-> getWeatherIcon(code),
   description |-> getWeatherDescription(code), cityName |-> geo]

\* concurrent calls of getWeatherForLocation
Lookups == {"L1", "L2"}

\* arguments of getWeatherForLocation
Locations == { <<"P", "a">>, <<" ", "p", "A", " ">>, <<"x">> }

\* what the geocoding provider answers (results[0].name)
GeoNames == {"City"}

\* current.weather_code values the forecast provider answers
WeatherCodes == {0, 10}

\* the errors geocodeLocation throws
GeocodeErrors == {"LocationNotFound", "GeocodingTimeout", "GeocodingApiError"}

\* the errors fetchWeatherData throws
WeatherErrors == {"WeatherTimeout", "WeatherApiError"}

NoSnapshot == [condition |-> "-", icon |-> "-", description |-> "-", cityName |-> "-"]
NoLocation == <<>>
NoOk == [valid |-> FALSE, data |-> NoSnapshot, at |-> 0, loc |-> NoLocation]

\* the lower-cased, trimmed form of a location, by which lastOk is indexed
NormalForm(location) == trim(toLowerCase(location))

WeatherKeys == {NormalForm(l) : l \in Locations}

\* no cache/clear request at the preceding step
NoClear == [status |-> 0, removed |-> 0]

\* a step of anything but the cache/clear handler
NotClearCache == wclear' = NoClear /\ UNCHANGED wafter

InitWeather ==
  /\ wcache = EmptyMap
  /\ wpc = [r \in Lookups |-> "idle"]
  /\ wloc = [r \in Lookups |-> NoLocation]
  /\ wgeo = [r \in Lookups |-> "-"]
  /\ wresult = [r \in Lookups |-> NoSnapshot]
  /\ werror = [r \in Lookups |-> "-"]
  /\ wnet = [r \in Lookups |-> FALSE]
  /\ wstored = [r \in Lookups |-> FALSE]
  /\ wevicted = [r \in Lookups |-> FALSE]
  /\ wothers = [r \in Lookups |-> FALSE]
  /\ wclear = NoClear
  /\ wafter = [r \in Lookups |-> NoClear]
  /\ lastOk = [k \in WeatherKeys |-> NoOk]

\* getWeatherForLocation up to its first await: the cache check, then the
\* geocoding request is sent
getWeatherForLocation(r, location) ==
  LET k == cacheKey(location)
      cachedData == get(wcache, k, now)
  IN
  /\ wpc[r] = "idle"
  /\ wloc' = [wloc EXCEPT ![r] = location]
  /\ wcache' = cachedData.cache
  /\ IF cachedData.present
       THEN /\ wpc' = [wpc EXCEPT ![r] = "done"]
            /\ wresult' = [wresult EXCEPT ![r] = cachedData.data]
            /\ UNCHANGED <<wnet, wevicted>>
       ELSE /\ wpc' = [wpc EXCEPT ![r] = "geocoding"]
            /\ wnet' = [wnet EXCEPT ![r] = TRUE]
            /\ wevicted' = [wevicted EXCEPT ![r] = (cachedData.cache # wcache)]
            /\ UNCHANGED wresult
  /\ wafter' = [wafter EXCEPT ![r] = IF cachedData.present THEN wclear ELSE NoClear]
  /\ wclear' = NoClear
  /\ UNCHANGED <<now, wgeo, werror, wstored, wothers, lastOk>>

\* geocodeLocation resolves; fetchWeatherData sends the forecast request
GeocodeOk(r, name) ==
  /\ wpc[r] = "geocoding"
  /\ wpc' = [wpc EXCEPT ![r] = "fetching"]
  /\ wgeo' = [wgeo EXCEPT ![r] = name]
  /\ UNCHANGED <<now, wcache, wloc, wresult, werror, wnet, wstored, wevicted, wothers, lastOk>>
  /\ NotClearCache

GeocodeFailCachesDefault(r, e) ==
  /\ wpc[r] = "geocoding"
  /\ wpc' = [wpc EXCEPT ![r] = "failed"]
  /\ werror' = [werror EXCEPT ![r] = e]
  /\ wcache' = set(wcache, cacheKey(wloc[r]), weatherInfo("-", 0), now)
  /\ UNCHANGED <<now, wloc, wgeo, wresult, wnet, wstored, wevicted, wothers, lastOk>>
  /\ NotClearCache

\* geocodeLocation throws; the catch of getWeatherForLocation rethrows
GeocodeFail(r, e) ==
  /\ wpc[r] = "geocoding"
  /\ wpc' = [wpc EXCEPT ![r] = "failed"]
  /\ werror' = [werror EXCEPT ![r] = e]
  /\ UNCHANGED <<now, wcache, wloc, wgeo, wresult, wnet, wstored, wevicted, wothers, lastOk>>
  /\ NotClearCache

FetchOkKeepsStored(r, code) ==
  LET k == cacheKey(wloc[r])
      info == weatherInfo(wgeo[r], code)
  IN
  /\ wpc[r] = "fetching"
  /\ wcache' = IF wothers[r] /\ k \in DOMAIN wcache THEN wcache ELSE set(wcache, k, info, now)
  /\ wpc' = [wpc EXCEPT ![r] = "done"]
  /\ wresult' = [wresult EXCEPT ![r] = info]
  /\ wstored' = [wstored EXCEPT ![r] = TRUE]
  /\ wothers' = [q \in Lookups |->
                   IF q # r /\ wpc[q] \in {"geocoding", "fetching", "failed"}
                      /\ cacheKey(wloc[q]) = k
                   THEN TRUE ELSE wothers[q]]
  /\ lastOk' = [lastOk EXCEPT ![NormalForm(wloc[r])] =
                  [valid |-> TRUE, data |-> info, at |-> now, loc |-> wloc[r]]]
  /\ UNCHANGED <<now, wloc, wgeo, werror, wnet, wevicted>>
  /\ NotClearCache

\* fetchWeatherData resolves: the snapshot is built, cached and returned
FetchOk(r, code) ==
  LET k == cacheKey(wloc[r])
      info == weatherInfo(wgeo[r], code)
  IN
  /\ wpc[r] = "fetching"
  /\ wcache' = set(wcache, k, info, now)
  /\ wpc' = [wpc EXCEPT ![r] = "done"]
  /\ wresult' = [wresult EXCEPT ![r] = info]
  /\ wstored' = [wstored EXCEPT ![r] = TRUE]
  /\ wothers' = [q \in Lookups |->
                   IF q # r /\ wpc[q] \in {"geocoding", "fetching", "failed"}
                      /\ cacheKey(wloc[q]) = k
                   THEN TRUE ELSE wothers[q]]
  /\ lastOk' = [lastOk EXCEPT ![NormalForm(wloc[r])] =
                  [valid |-> TRUE, data |-> info, at |-> now, loc |-> wloc[r]]]
  /\ UNCHANGED <<now, wloc, wgeo, werror, wnet, wevicted>>
  /\ NotClearCache

\* fetchWeatherData throws; the catch of getWeatherForLocation rethrows
FetchFail(r, e) ==
  /\ wpc[r] = "fetching"
  /\ wpc' = [wpc EXCEPT ![r] = "failed"]
  /\ werror' = [werror EXCEPT ![r] = e]
  /\ UNCHANGED <<now, wcache, wloc, wgeo, wresult, wnet, wstored, wevicted, wothers, lastOk>>
  /\ NotClearCache

\* the caller has taken the result or the error
LookupReturn(r) ==
  /\ wpc[r] \in {"done", "failed"}
  /\ wpc' = [wpc EXCEPT ![r] = "idle"]
  /\ wloc' = [wloc EXCEPT ![r] = NoLocation]
  /\ wgeo' = [wgeo EXCEPT ![r] = "-"]
  /\ wresult' = [wresult EXCEPT ![r] = NoSnapshot]
  /\ werror' = [werror EXCEPT ![r] = "-"]
  /\ wnet' = [wnet EXCEPT ![r] = FALSE]
  /\ wstored' = [wstored EXCEPT ![r] = FALSE]
  /\ wevicted' = [wevicted EXCEPT ![r] = FALSE]
  /\ wothers' = [wothers EXCEPT ![r] = FALSE]
  /\ wafter' = [wafter EXCEPT ![r] = NoClear]
  /\ wclear' = NoClear
  /\ UNCHANGED <<now, wcache, lastOk>>

\* the setInterval callback of the weather cache
WeatherSweepTimer ==
  /\ wcache' = clearExpired(wcache, now)
  /\ UNCHANGED <<now, wpc, wloc, wgeo, wresult, werror, wnet, wstored, wevicted, wothers, lastOk>>
  /\ NotClearCache

WeatherTick ==
  /\ now < MaxTime
  /\ now' = now + 1
  /\ wclear' = NoClear
  /\ UNCHANGED <<wcache, wpc, wloc, wgeo, wresult, werror, wnet, wstored, wevicted, wothers,
                 wafter, lastOk>>

clearExpiredCacheAll(m, t) == clear(m)

\* WeatherService.clearExpiredCache
clearExpiredCache(m, t) == clearExpired(m, t)

\* WeatherController.clearCache (POST /api/weather/cache/clear): the handler has
\* no await; clearExpiredCache does not throw, so the response is the 200 one
clearCache ==
  LET swept == clearExpiredCache(wcache, now) IN
  /\ wcache' = swept
  /\ wclear' = [status |-> 200, removed |-> RemovedBy(wcache, swept)]
  /\ UNCHANGED <<now, wpc, wloc, wgeo, wresult, werror, wnet, wstored, wevicted, wothers,
                 wafter, lastOk>>

-----------------------------------------------------------------------------
(* GeminiAIController *)

\* concurrent AI requests
AIRequests == {"A1", "A2"}

\* location names sent in request bodies
LocNames == {"a", "b"}

\* UTF-16 code unit of a one-character name, the order Array.prototype.sort uses
CodeUnit(c) == CASE c = "a" -> 97 [] c = "b" -> 98 [] OTHER -> 0

\* texts the generative provider answers (candidates[0].content.parts[0].text)
ProviderTexts == {"", "generated"}

Quote(str) == "\"" \o str \o "\""

RECURSIVE JoinQuoted(_)
JoinQuoted(seq) ==
  IF seq = <<>> THEN ""
  ELSE IF Len(seq) = 1 THEN Quote(seq[1])
  ELSE Quote(seq[1]) \o "," \o JoinQuoted(Tail(seq))

\* JSON.stringify of an array of strings
StringifyArray(seq) == "[" \o JoinQuoted(seq) \o "]"

\* insertion of x into a sequence sorted by code unit, after its equals
RECURSIVE InsertSorted(_, _)
InsertSorted(x, seq) ==
  IF seq = <<>> THEN <<x>>
  ELSE IF CodeUnit(x) < CodeUnit(Head(seq)) THEN <<x>> \o seq
  ELSE <<Head(seq)>> \o InsertSorted(x, Tail(seq))

RECURSIVE SortFrom(_, _)
SortFrom(seq, acc) ==
  IF seq = <<>> THEN acc ELSE SortFrom(Tail(seq), InsertSorted(Head(seq), acc))

sortKeepsOrder(seq) == seq

\* Array.prototype.sort() without a comparator, on one-character strings
sort(seq) == SortFrom(seq, <<>>)

\* a request body: text is question / interests / location by kind; locations
\* (currentLocations for suggestions) may be left out of the body
Body(text, hasLocs, locs) == [text |-> text, hasLocs |-> hasLocs, locs |-> locs]

NoBody == Body("", FALSE, <<>>)

Bodies(kind) ==
  CASE kind = "chat" ->
         {Body(q, FALSE, <<>>) : q \in {"", "q"}}
         \cup {Body("q", TRUE, l) : l \in {<<"a">>}}
    [] kind = "summary" ->
         {Body("", FALSE, <<>>)}
         \cup {Body("", TRUE, l) : l \in {<<>>, <<"a", "b">>, <<"b", "a">>}}
    [] kind = "suggestions" ->
         {Body(i, FALSE, <<>>) : i \in {"", "hiking"}}
    [] kind = "trivia" ->
         {Body(l, FALSE, <<>>) : l \in {"", "a"}}

Kinds == {"chat", "summary", "suggestions", "trivia"}

\* JSON.stringify of the data each handler passes to getCacheKey
\* (a property whose value is undefined is left out of the object)
Stringify(kind, body, locs) ==
  CASE kind = "chat" ->
         "{\"question\":" \o Quote(body.text)
           \o (IF body.hasLocs THEN ",\"locations\":" \o StringifyArray(locs) ELSE "") \o "}"
    [] kind = "summary" -> StringifyArray(locs)
    [] kind = "suggestions" ->
         "{" \o (IF body.hasLocs THEN "\"currentLocations\":" \o StringifyArray(locs) \o "," ELSE "")
           \o "\"interests\":" \o Quote(body.text) \o "}"
    [] kind = "trivia" -> Quote(body.text)

\* getCacheKey(type, data) = `${type}-${JSON.stringify(data)}`
getCacheKey(kind, body, locs) == kind \o "-" \o Stringify(kind, body, locs)

getCachedResponseAtTTL(m, key, t) ==
  IF key \in DOMAIN m /\ t - m[key].timestamp <= CACHE_TTL
    THEN [present |-> TRUE, data |-> m[key].data]
    ELSE [present |-> FALSE, data |-> Null]

\* getCachedResponse(key): the cached text, or null (present = FALSE)
getCachedResponse(m, key, t) ==
  IF key \in DOMAIN m /\ t - m[key].timestamp < CACHE_TTL
    THEN [present |-> TRUE, data |-> m[key].data]
    ELSE [present |-> FALSE, data |-> Null]

\* setCachedResponse(key, data)
setCachedResponse(m, key, data, t) == MapSet(m, key, [data |-> data, timestamp |-> t])

\* if (cachedResponse): null and the empty string are falsy
Truthy(cached) == cached.present /\ cached.data # ""

\* the request is rejected by the handler's first check
\* (!question, !locations || locations.length === 0, !interests, !location)
Rejected(kind, body) ==
  CASE kind = "chat" -> body.text = ""
    [] kind = "summary" -> ~body.hasLocs \/ body.locs = <<>>
    [] kind = "suggestions" -> body.text = ""
    [] kind = "trivia" -> body.text = ""

\* the locations whose weather the handler fetches
LookupLocations(kind, body, locs) ==
  CASE kind = "chat" -> IF body.hasLocs THEN locs ELSE <<>>
    [] kind = "summary" -> locs
    [] kind = "suggestions" -> <<>>
    [] kind = "trivia" -> <<body.text>>

anySettled(results) == \E i \in 1..Len(results) : results[i] # "pending"

\* await Promise.all(weatherPromises): every getWeatherData promise has resolved
allSettled(results) == \A i \in 1..Len(results) : results[i] # "pending"

\* the context part of a location whose lookup returned data / returned null
DataPart(loc) == loc \o ": data"
UnavailablePart(loc) == loc \o ": Weather data unavailable"

RECURSIVE SelectData(_, _)
SelectData(locs, results) ==
  IF locs = <<>> THEN <<>>
  ELSE (IF Head(results) = "data" THEN <<DataPart(Head(locs))>> ELSE <<>>)
         \o SelectData(Tail(locs), Tail(results))

\* the weather context of the prompt, one part per location:
\* chat maps every location (a placeholder for a failed one), summary appends
\* only the locations whose lookup succeeded, trivia uses its one result
weatherContext(kind, locs, results) ==
  CASE kind = "chat" ->
         [i \in 1..Len(locs) |->
            IF results[i] = "data" THEN DataPart(locs[i]) ELSE UnavailablePart(locs[i])]
    [] kind = "summary" -> SelectData(locs, results)
    [] kind = "trivia" -> SelectData(locs, results)
    [] OTHER -> <<>>

\* the handler stops with 400 after the lookups
\* (summary: !weatherSummary; trivia: !weatherData)
NoWeatherData(kind, locs, results) ==
  kind \in {"summary", "trivia"} /\ weatherContext(kind, locs, results) = <<>>

Response(status, text) == [status |-> status, text |-> text]

providerErrorResponse(kind, body, locs, results) == Response(500, "")

\* the catch (aiError) branch of each handler: res.json of a locally built text
fallbackResponse(kind, body, locs, results) ==
  CASE kind = "chat" ->
         Response(200, "I can help with weather questions! You're currently tracking "
                         \o ToString(IF body.hasLocs THEN Len(locs) ELSE 0) \o " locations.")
    [] kind = "summary" ->
         Response(200, "Weather Summary: Average temperature across "
                         \o ToString(Len(SelectData(locs, results))) \o " locations")
    [] kind = "suggestions" ->
         Response(200, "Based on your interests in " \o body.text
                         \o ", here are 5 recommended locations")
    [] kind = "trivia" ->
         Response(200, body.text \o " is currently experiencing data")

NoHit == [live |-> FALSE, data |-> Null]
NoGen == [valid |-> FALSE, locs |-> <<>>, key |-> "-", at |-> 0, text |-> Null]

InitAI ==
  /\ aiCache = EmptyMap
  /\ apc = [r \in AIRequests |-> "idle"]
  /\ akind = [r \in AIRequests |-> "-"]
  /\ abody = [r \in AIRequests |-> NoBody]
  /\ akey = [r \in AIRequests |-> "-"]
  /\ alocs = [r \in AIRequests |-> <<>>]
  /\ aresults = [r \in AIRequests |-> <<>>]
  /\ acontext = [r \in AIRequests |-> <<>>]
  /\ astatus = [r \in AIRequests |-> 0]
  /\ atext = [r \in AIRequests |-> Null]
  /\ afailed = [r \in AIRequests |-> FALSE]
  /\ acalls = [r \in AIRequests |-> 0]
  /\ alooked = [r \in AIRequests |-> 0]
  /\ ahit = [r \in AIRequests |-> NoHit]
  /\ lastGen = NoGen
  /\ aothers = [r \in AIRequests |-> FALSE]
  /\ areceived = 0

\* res.status(status).json({... text ...}); the handler returns
Respond(r, resp) ==
  /\ apc' = [apc EXCEPT ![r] = "done"]
  /\ astatus' = [astatus EXCEPT ![r] = resp.status]
  /\ atext' = [atext EXCEPT ![r] = resp.text]

\* callGemini(prompt, maxTokens): the request is sent, the handler awaits it
CallGemini(r) ==
  /\ apc' = [apc EXCEPT ![r] = "gemini"]
  /\ acalls' = [acalls EXCEPT ![r] = @ + 1]
  /\ UNCHANGED <<astatus, atext>>

\* handleWeatherChat / generateWeatherSummary / getLocationSuggestions /
\* generateWeatherTrivia up to the first await: validation, cache check, then
\* either every weather request is sent (locations.map) or the prompt is sent
Receive(r, kind, body) ==
  LET locs == IF kind = "summary" /\ ~Rejected(kind, body) THEN sort(body.locs) ELSE body.locs
      key == getCacheKey(kind, body, locs)
      cachedResponse == getCachedResponse(aiCache, key, now)
      lookups == LookupLocations(kind, body, locs)
  IN
  /\ apc[r] = "idle"
  /\ areceived < MaxAIRequests
  /\ areceived' = areceived + 1
  /\ akind' = [akind EXCEPT ![r] = kind]
  /\ abody' = [abody EXCEPT ![r] = body]
  /\ alocs' = [alocs EXCEPT ![r] = locs]
  /\ IF Rejected(kind, body)
       THEN /\ Respond(r, Response(400, ""))
            /\ UNCHANGED <<akey, aresults, acalls, alooked, ahit>>
       ELSE /\ akey' = [akey EXCEPT ![r] = key]
            /\ ahit' = [ahit EXCEPT ![r] =
                          IF key \in DOMAIN aiCache /\ now - aiCache[key].timestamp < CACHE_TTL
                          THEN [live |-> TRUE, data |-> aiCache[key].data] ELSE NoHit]
            /\ IF Truthy(cachedResponse)
                 THEN /\ Respond(r, Response(200, cachedResponse.data))
                      /\ UNCHANGED <<aresults, acalls, alooked>>
                 ELSE IF lookups # <<>>
                 THEN /\ apc' = [apc EXCEPT ![r] = "weather"]
                      /\ aresults' = [aresults EXCEPT ![r] = [i \in 1..Len(lookups) |-> "pending"]]
                      /\ alooked' = [alooked EXCEPT ![r] = Len(lookups)]
                      /\ UNCHANGED <<astatus, atext, acalls>>
                 ELSE /\ CallGemini(r)
                      /\ UNCHANGED <<aresults, alooked>>
  /\ UNCHANGED <<now, aiCache, acontext, afailed, lastGen, aothers>>

\* getWeatherData(location) of the i-th location resolves: data, or null on any error
WeatherResolved(r, i, outcome) ==
  /\ apc[r] = "weather"
  /\ i \in 1..Len(aresults[r])
  /\ aresults[r][i] = "pending"
  /\ aresults' = [aresults EXCEPT ![r][i] = outcome]
  /\ UNCHANGED <<now, aiCache, apc, akind, abody, akey, alocs, acontext, astatus, atext,
                 afailed, acalls, alooked, ahit, lastGen, aothers, areceived>>

\* the handler resumes after the lookups: builds the context and sends the
\* prompt, or answers 400 when summary / trivia have no weather data
Gathered(r) ==
  LET lookups == LookupLocations(akind[r], abody[r], alocs[r]) IN
  /\ apc[r] = "weather"
  /\ allSettled(aresults[r])
  /\ IF NoWeatherData(akind[r], lookups, aresults[r])
       THEN /\ Respond(r, Response(400, ""))
            /\ UNCHANGED <<acontext, acalls>>
       ELSE /\ acontext' = [acontext EXCEPT ![r] = weatherContext(akind[r], lookups, aresults[r])]
            /\ CallGemini(r)
  /\ UNCHANGED <<now, aiCache, akind, abody, akey, alocs, aresults, afailed, alooked, ahit, lastGen,
                 aothers, areceived>>

\* callGemini resolves: the text is cached and returned
GeminiOk(r, text) ==
  /\ apc[r] = "gemini"
  /\ aiCache' = setCachedResponse(aiCache, akey[r], text, now)
  /\ Respond(r, Response(200, text))
  /\ lastGen' = IF akind[r] = "summary"
                  THEN [valid |-> TRUE, locs |-> abody[r].locs, key |-> akey[r], at |-> now, text |-> text]
                  ELSE lastGen
  /\ aothers' = [q \in AIRequests |->
                   IF q # r /\ apc[q] # "idle" /\ akey[q] = akey[r] THEN TRUE ELSE aothers[q]]
  /\ UNCHANGED <<now, akind, abody, akey, alocs, aresults, acontext, afailed, acalls, alooked, ahit,
                 areceived>>

GeminiFailCachesFallback(r) ==
  /\ apc[r] = "gemini"
  /\ Respond(r, fallbackResponse(akind[r], abody[r], alocs[r], aresults[r]))
  /\ aiCache' = setCachedResponse(aiCache, akey[r],
                                  fallbackResponse(akind[r], abody[r], alocs[r], aresults[r]).text, now)
  /\ afailed' = [afailed EXCEPT ![r] = TRUE]
  /\ UNCHANGED <<now, akind, abody, akey, alocs, aresults, acontext, acalls, alooked, ahit, lastGen,
                 aothers, areceived>>

\* callGemini throws 'AI service unavailable': the handler's inner catch answers
GeminiFail(r) ==
  /\ apc[r] = "gemini"
  /\ Respond(r, fallbackResponse(akind[r], abody[r], alocs[r], aresults[r]))
  /\ afailed' = [afailed EXCEPT ![r] = TRUE]
  /\ UNCHANGED <<now, aiCache, akind, abody, akey, alocs, aresults, acontext, acalls, alooked, ahit, lastGen,
                 aothers, areceived>>

\* the response has been sent
AIReturn(r) ==
  /\ apc[r] = "done"
  /\ apc' = [apc EXCEPT ![r] = "idle"]
  /\ akind' = [akind EXCEPT ![r] = "-"]
  /\ abody' = [abody EXCEPT ![r] = NoBody]
  /\ akey' = [akey EXCEPT ![r] = "-"]
  /\ alocs' = [alocs EXCEPT ![r] = <<>>]
  /\ aresults' = [aresults EXCEPT ![r] = <<>>]
  /\ acontext' = [acontext EXCEPT ![r] = <<>>]
  /\ astatus' = [astatus EXCEPT ![r] = 0]
  /\ atext' = [atext EXCEPT ![r] = Null]
  /\ afailed' = [afailed EXCEPT ![r] = FALSE]
  /\ acalls' = [acalls EXCEPT ![r] = 0]
  /\ alooked' = [alooked EXCEPT ![r] = 0]
  /\ ahit' = [ahit EXCEPT ![r] = NoHit]
  /\ aothers' = [aothers EXCEPT ![r] = FALSE]
  /\ UNCHANGED <<now, aiCache, lastGen, areceived>>

AITick ==
  /\ now < MaxAITime
  /\ now' = now + 1
  /\ UNCHANGED aiVars

-----------------------------------------------------------------------------
(* Widget ids: the :id route parameter and the ObjectId of a stored widget *)

\* GET /api/widgets/:id and DELETE /api/widgets/:id requests, handled while
\* POST /api/widgets requests are in flight
ByIds == {"D1"}

IsHexChar(c) ==
  c \in {"0", "1", "2", "3", "4", "5", "6", "7", "8", "9",
         "a", "b", "c", "d", "e", "f", "A", "B", "C", "D", "E", "F"}

ObjectIdLength == 24

isObjectIdStringUnanchored(id) ==
  /\ Len(id) >= ObjectIdLength
  /\ \A i \in 1..ObjectIdLength : IsHexChar(id[i])

\* id.match(/^[0-9a-fA-F]{24}$/)
isObjectIdString(id) ==
  /\ Len(id) = ObjectIdLength
  /\ \A i \in 1..Len(id) : IsHexChar(id[i])

\* the 24 hexadecimal characters of the ObjectId the store gave to its n-th
\* document (lower case, as ObjectId.toHexString writes them)
ObjectIdHex(n) ==
  [i \in 1..ObjectIdLength |->
     IF i < ObjectIdLength THEN "a"
     ELSE CASE n = 1 -> "1" [] n = 2 -> "2" [] n = 3 -> "3" [] n = 4 -> "4" [] OTHER -> "5"]

\* the string id cast to an ObjectId names the document w: the cast reads the
\* hexadecimal digits, so the case of a letter does not matter
castMatches(id, w) == isObjectIdString(id) /\ toLowerCase(id) = ObjectIdHex(w.id)

\* Widget.findById(id): the documents found (none or one)
findById(store, id) == {w \in store : castMatches(id, w)}

\* Widget.findByIdAndDelete(id): the document removed and returned (none or
\* one) and the resulting collection; the store does both in one step
findByIdAndDelete(store, id) ==
  [found |-> findById(store, id), store |-> store \ findById(store, id)]

Repeat(c, n) == [i \in 1..n |-> c]

\* req.params.id: "abc", 23 and 25 hexadecimal characters, 24 characters one of
\* which is not hexadecimal, the id of the first widget in lower and in upper
\* case, and a 24 character hexadecimal id no widget has
IdInputs ==
  { <<"a", "b", "c">>,
    Repeat("a", ObjectIdLength - 1),
    Repeat("a", ObjectIdLength + 1),
    Repeat("a", ObjectIdLength - 1) \o <<"g">>,
    ObjectIdHex(1),
    Repeat("A", ObjectIdLength - 1) \o <<"1">>,
    Repeat("f", ObjectIdLength) }

NoId == <<>>

InitById ==
  /\ dpc = [r \in ByIds |-> "idle"]
  /\ dop = [r \in ByIds |-> "-"]
  /\ did = [r \in ByIds |-> NoId]
  /\ dstatus = [r \in ByIds |-> 0]
  /\ dbody = [r \in ByIds |-> {}]
  /\ dqueried = [r \in ByIds |-> FALSE]
  /\ dbefore = [r \in ByIds |-> {}]

-----------------------------------------------------------------------------
(* WidgetController over the Widget collection *)
(* The store is taken to answer every query: the 500 branch of each catch, *)
(* reached when a query rejects for a reason other than schema validation, *)
(* is not modelled.                                                        *)

\* concurrent POST /api/widgets requests
Creates == {"W1", "W2"}

\* req.body.location: a string, or a value of another type
StringInput(str) == [type |-> "string", str |-> str]
NumberInput == [type |-> "number", str |-> <<>>]
Undefined == [type |-> "undefined", str |-> <<>>]

TooLong == [i \in 1..(MaxLength + 1) |-> "a"]

CreateInputs ==
  {Undefined, NumberInput}
  \cup {StringInput(str) : str \in { <<>>, <<" ">>, <<"a", "b">>, <<" ", "A", "B", " ">>,
                                     <<"a", ".">>, <<"b">>, TooLong }}

\* !location || typeof location !== 'string' || location.trim().length === 0
InvalidLocation(input) ==
  \/ input.type # "string"
  \/ input.str = <<>>
  \/ Len(trim(input.str)) = 0

\* new RegExp(`^${pattern}$`, 'i') tested on str, for patterns made of letters,
\* spaces and dots: the pattern is not escaped, so a dot matches any character
regexTest(pattern, str) ==
  /\ Len(pattern) = Len(str)
  /\ \A i \in 1..Len(pattern) :
       pattern[i] = "." \/ LowerChar(pattern[i]) = LowerChar(str[i])

\* Widget.findOne({ location: { $regex: ... } }) finds a document
findOne(store, trimmedLocation) == \E w \in store : regexTest(trimmedLocation, w.location)

\* the schema validation run by save(): trim, minlength, maxlength
ValidationError(location) ==
  Len(trim(location)) < MinLength \/ Len(trim(location)) > MaxLength

NoWidgets == {}

InitWidget ==
  /\ widgets = NoWidgets
  /\ nextId = 1
  /\ cpc = [r \in Creates |-> "idle"]
  /\ cinput = [r \in Creates |-> Undefined]
  /\ ctrimmed = [r \in Creates |-> <<>>]
  /\ cstatus = [r \in Creates |-> 0]
  /\ cdup = [r \in Creates |-> FALSE]
  /\ csaved = [r \in Creates |-> NoWidgets]
  /\ InitById

\* createWidget up to its first await: the input check, then findOne is sent
createWidget(r, input) ==
  /\ cpc[r] = "idle"
  /\ cinput' = [cinput EXCEPT ![r] = input]
  /\ IF InvalidLocation(input)
       THEN /\ cpc' = [cpc EXCEPT ![r] = "done"]
            /\ cstatus' = [cstatus EXCEPT ![r] = 400]
            /\ UNCHANGED ctrimmed
       ELSE /\ cpc' = [cpc EXCEPT ![r] = "finding"]
            /\ ctrimmed' = [ctrimmed EXCEPT ![r] = trim(input.str)]
            /\ UNCHANGED cstatus
  /\ UNCHANGED <<widgets, nextId, cdup, csaved>>

\* findOne resolves: 409 if a document matched, else save() is sent
FindOneResolved(r) ==
  /\ cpc[r] = "finding"
  /\ cdup' = [cdup EXCEPT ![r] =
                \E w \in widgets : toLowerCase(w.location) = toLowerCase(ctrimmed[r])]
  /\ IF findOne(widgets, ctrimmed[r])
       THEN /\ cpc' = [cpc EXCEPT ![r] = "done"]
            /\ cstatus' = [cstatus EXCEPT ![r] = 409]
       ELSE /\ cpc' = [cpc EXCEPT ![r] = "saving"]
            /\ UNCHANGED cstatus
  /\ UNCHANGED <<widgets, nextId, cinput, ctrimmed, csaved>>

\* save() resolves with the stored document (201), or rejects with a
\* ValidationError (400)
SaveResolved(r) ==
  /\ cpc[r] = "saving"
  /\ cpc' = [cpc EXCEPT ![r] = "done"]
  /\ IF ValidationError(ctrimmed[r])
       THEN /\ cstatus' = [cstatus EXCEPT ![r] = 400]
            /\ UNCHANGED <<widgets, nextId, csaved>>
       ELSE /\ nextId <= MaxWidgets
            /\ widgets' = widgets \cup {[id |-> nextId, location |-> trim(ctrimmed[r])]}
            /\ nextId' = nextId + 1
            /\ csaved' = [csaved EXCEPT ![r] = {[id |-> nextId, location |-> trim(ctrimmed[r])]}]
            /\ cstatus' = [cstatus EXCEPT ![r] = 201]
  /\ UNCHANGED <<cinput, ctrimmed, cdup>>

\* the response has been sent
CreateReturn(r) ==
  /\ cpc[r] = "done"
  /\ cpc' = [cpc EXCEPT ![r] = "idle"]
  /\ cinput' = [cinput EXCEPT ![r] = Undefined]
  /\ ctrimmed' = [ctrimmed EXCEPT ![r] = <<>>]
  /\ cstatus' = [cstatus EXCEPT ![r] = 0]
  /\ cdup' = [cdup EXCEPT ![r] = FALSE]
  /\ csaved' = [csaved EXCEPT ![r] = NoWidgets]
  /\ UNCHANGED <<widgets, nextId>>


-----------------------------------------------------------------------------
(* WidgetController.getWidgetById and WidgetController.deleteWidget *)

\* either handler up to its first await: the id check, then the query is sent
ById(r, op, id, awaiting) ==
  /\ dpc[r] = "idle"
  /\ dop' = [dop EXCEPT ![r] = op]
  /\ did' = [did EXCEPT ![r] = id]
  /\ IF ~isObjectIdString(id)
       THEN /\ dpc' = [dpc EXCEPT ![r] = "done"]
            /\ dstatus' = [dstatus EXCEPT ![r] = 400]
            /\ UNCHANGED dqueried
       ELSE /\ dpc' = [dpc EXCEPT ![r] = awaiting]
            /\ dqueried' = [dqueried EXCEPT ![r] = TRUE]
            /\ UNCHANGED dstatus
  /\ UNCHANGED <<widgets, nextId, createVars, dbody, dbefore>>

getWidgetById(r, id) == ById(r, "getWidgetById", id, "finding")

deleteWidget(r, id) == ById(r, "deleteWidget", id, "deleting")

\* the response to a resolved query: 404 when it found nothing, else the widget
ByIdResponse(r, found) ==
  /\ dpc' = [dpc EXCEPT ![r] = "done"]
  /\ dstatus' = [dstatus EXCEPT ![r] = IF found = {} THEN 404 ELSE 200]
  /\ dbody' = [dbody EXCEPT ![r] = found]
  /\ dbefore' = [dbefore EXCEPT ![r] = widgets]

\* Widget.findById resolves
FindByIdResolved(r) ==
  /\ dpc[r] = "finding"
  /\ ByIdResponse(r, findById(widgets, did[r]))
  /\ UNCHANGED <<widgets, nextId, createVars, dop, did, dqueried>>

\* Widget.findByIdAndDelete resolves
FindByIdAndDeleteResolved(r) ==
  LET deleted == findByIdAndDelete(widgets, did[r]) IN
  /\ dpc[r] = "deleting"
  /\ widgets' = deleted.store
  /\ ByIdResponse(r, deleted.found)
  /\ UNCHANGED <<nextId, createVars, dop, did, dqueried>>

\* the response has been sent
ByIdReturn(r) ==
  /\ dpc[r] = "done"
  /\ dpc' = [dpc EXCEPT ![r] = "idle"]
  /\ dop' = [dop EXCEPT ![r] = "-"]
  /\ did' = [did EXCEPT ![r] = NoId]
  /\ dstatus' = [dstatus EXCEPT ![r] = 0]
  /\ dbody' = [dbody EXCEPT ![r] = {}]
  /\ dqueried' = [dqueried EXCEPT ![r] = FALSE]
  /\ dbefore' = [dbefore EXCEPT ![r] = {}]
  /\ UNCHANGED <<widgets, nextId, createVars>>

-----------------------------------------------------------------------------
(* Initial state and specifications *)

Init ==
  /\ now = 0
  /\ InitCache
  /\ InitWeather
  /\ InitCodes
  /\ InitAI
  /\ InitWidget

NextCache ==
  /\ \/ Tick
     \/ \E k \in Keys, v \in Vals : Set(k, v)
     \/ \E k \in Keys : Get(k)
     \/ \E k \in Keys : Has(k)
     \/ \E k \in Keys : Delete(k)
     \/ Clear
     \/ SweepTimer
     \/ GetStats
     \/ GetAllValid
     \/ Shutdown
  /\ UNCHANGED <<weatherVars, codeVars, aiVars, widgetVars>>

SpecCache == Init /\ [][NextCache]_vars

\* setInterval keeps calling the sweep every minute for as long as the process
\* runs: a sweep that has something to remove is not postponed forever
SpecCacheFair ==
  SpecCache /\ WF_vars(SweepTimer /\ UNCHANGED <<weatherVars, codeVars, aiVars, widgetVars>>)

NextWeather ==
  /\ \/ WeatherTick
     \/ \E r \in Lookups, l \in Locations : getWeatherForLocation(r, l)
     \/ \E r \in Lookups, g \in GeoNames : GeocodeOk(r, g)
     \/ \E r \in Lookups, e \in GeocodeErrors : GeocodeFail(r, e)
     \/ \E r \in Lookups, c \in WeatherCodes : FetchOk(r, c)
     \/ \E r \in Lookups, e \in WeatherErrors : FetchFail(r, e)
     \/ \E r \in Lookups : LookupReturn(r)
     \/ WeatherSweepTimer
     \/ clearCache
  /\ UNCHANGED <<cacheVars, codeVars, aiVars, widgetVars>>

SpecWeather == Init /\ [][NextWeather]_vars

NextCodes ==
  /\ \E c \in CodeInputs : DeriveFromCode(c)
  /\ UNCHANGED <<now, cacheVars, weatherVars, aiVars, widgetVars>>

SpecCodes == Init /\ [][NextCodes]_vars

NextAI ==
  /\ \/ AITick
     \/ \E r \in AIRequests, kind \in Kinds : \E body \in Bodies(kind) : Receive(r, kind, body)
     \/ \E r \in AIRequests, i \in 1..2, o \in {"data", "null"} : WeatherResolved(r, i, o)
     \/ \E r \in AIRequests : Gathered(r)
     \/ \E r \in AIRequests, t \in ProviderTexts : GeminiOk(r, t)
     \/ \E r \in AIRequests : GeminiFail(r)
     \/ \E r \in AIRequests : AIReturn(r)
  /\ UNCHANGED <<cacheVars, weatherVars, codeVars, widgetVars>>

SpecAI == Init /\ [][NextAI]_vars

NextCreate ==
  /\ \/ \E r \in Creates, input \in CreateInputs : createWidget(r, input)
     \/ \E r \in Creates : FindOneResolved(r)
     \/ \E r \in Creates : SaveResolved(r)
     \/ \E r \in Creates : CreateReturn(r)
  /\ UNCHANGED byIdVars

NextById ==
  \/ \E r \in ByIds, id \in IdInputs : getWidgetById(r, id)
  \/ \E r \in ByIds, id \in IdInputs : deleteWidget(r, id)
  \/ \E r \in ByIds : FindByIdResolved(r)
  \/ \E r \in ByIds : FindByIdAndDeleteResolved(r)
  \/ \E r \in ByIds : ByIdReturn(r)

NextWidget ==
  /\ NextCreate \/ NextById
  /\ UNCHANGED <<now, cacheVars, weatherVars, codeVars, aiVars>>

SpecWidget == Init /\ [][NextWidget]_vars

-----------------------------------------------------------------------------
(* CacheService: set, get, has (SpecCache) *)

\* C1: a get(k) issued when no more than the configured duration has elapsed
\* since the last set(k, v), with no delete(k) or clear() since that set,
\* returns v.
C1_SetThenGetReturnsValue ==
  (/\ lastOp.op = "get"
   /\ lastSet[lastOp.key].valid
   /\ now - lastSet[lastOp.key].at <= CacheDuration)
  => (lastOp.present /\ lastOp.data = lastSet[lastOp.key].data)

\* C1 witness: a get of an entry whose age is exactly the duration, set after
\* an earlier set of the same key to another value, has returned the later value
C1_Witness ==
  /\ lastOp.op = "get"
  /\ lastOp.found
  /\ lastSet[lastOp.key].valid
  /\ lastSet[lastOp.key].at > 0
  /\ now - lastSet[lastOp.key].at = CacheDuration
  /\ lastOp.data = lastSet[lastOp.key].data

\* C2: once more than the configured duration has elapsed since the last
\* set(k, .), get(k) returns absent and the entry is gone from the map; a has(k)
\* that follows such a get returns false; and get never returns a value older
\* than the configured duration.
C2_ExpiredGetEvicts ==
  /\ (/\ lastOp.op = "get"
      /\ lastSet[lastOp.key].valid
      /\ now - lastSet[lastOp.key].at > CacheDuration)
     => (~lastOp.present /\ lastOp.key \notin DOMAIN cache)
  /\ (lastOp.op = "has" /\ lastOp.prev = lastOp.key)
     => (~lastOp.present /\ lastOp.key \notin DOMAIN cache)
  /\ (lastOp.op = "get" /\ lastOp.present)
     => (lastOp.found /\ lastOp.age <= CacheDuration)

\* C2 witness: a has(k) called right after a get(k) that found k's entry expired
C2_Witness ==
  /\ lastOp.op = "has"
  /\ lastOp.prev = lastOp.key
  /\ ~lastOp.found

-----------------------------------------------------------------------------
(* WeatherService.getWeatherForLocation (SpecWeather) *)

\* the lookup r is received in this step
Received(r) == wpc[r] = "idle" /\ wpc'[r] # "idle"

\* the lookup r ends with an error in this step
Fails(r) == wpc[r] \in {"geocoding", "fetching"} /\ wpc'[r] = "failed"

\* C3: a lookup received within the cache duration after a successful lookup of
\* a location with the same lower-cased, trimmed form returns the snapshot that
\* lookup stored and issues no geocoding or forecast request.
C3_NormalizedKeyHit ==
  [][\A r \in Lookups :
       LET k == NormalForm(wloc'[r]) IN
       (Received(r) /\ lastOk[k].valid /\ now - lastOk[k].at <= CacheDuration)
       => /\ wpc'[r] = "done"
          /\ wresult'[r] = lastOk[k].data
          /\ ~wnet'[r]
          /\ wcache' = wcache]_vars

\* C3 witness: a lookup answered from the cache whose argument differs, as
\* written, from the argument of the lookup that stored the snapshot
C3_Witness ==
  \E r \in Lookups :
    /\ wpc[r] = "done"
    /\ ~wnet[r]
    /\ lastOk[NormalForm(wloc[r])].valid
    /\ lastOk[NormalForm(wloc[r])].loc # wloc[r]
    /\ wresult[r] = lastOk[NormalForm(wloc[r])].data

\* C4 as stated: a lookup that has failed carries its error, has returned no
\* snapshot and has left the weather cache as it found it: it has neither
\* stored nor removed an entry.
C4_FailedLookupLeavesCacheUnchanged ==
  \A r \in Lookups :
    wpc[r] = "failed" =>
      /\ werror[r] \in GeocodeErrors \cup WeatherErrors
      /\ wresult[r] = NoSnapshot
      /\ ~wstored[r]
      /\ ~wevicted[r]

\* C4 amended: a lookup whose geocode or forecast call fails ends with that
\* error, returns no snapshot and stores nothing: the failing step leaves the
\* cache unchanged, the only change the lookup has made is the eviction, by its
\* initial get, of an expired entry under its own key, and its key has no entry
\* unless another lookup stored one meanwhile; a lookup received while its key
\* has no entry goes to the network.
C4_FailedLookupStoresNothing ==
  [][\A r \in Lookups :
       LET k == NormalForm(wloc'[r]) IN
       /\ Fails(r) =>
            /\ wcache' = wcache
            /\ wresult'[r] = NoSnapshot
            /\ werror'[r] \in (IF wpc[r] = "geocoding" THEN GeocodeErrors ELSE WeatherErrors)
            /\ ~wstored'[r]
            /\ (~wothers'[r] => k \notin DOMAIN wcache')
       /\ (Received(r) /\ wpc'[r] = "geocoding") =>
            \/ wcache' = wcache
            \/ /\ k \in DOMAIN wcache
               /\ now - wcache[k].timestamp > CacheDuration
               /\ wcache' = MapDelete(wcache, k)
       /\ (Received(r) /\ k \notin DOMAIN wcache) =>
            (wpc'[r] = "geocoding" /\ wnet'[r])]_vars

\* C4 witness: a lookup that failed at the forecast call after its initial get
\* evicted an expired entry
C4_Witness ==
  \E r \in Lookups :
    /\ wpc[r] = "failed"
    /\ werror[r] \in WeatherErrors
    /\ wevicted[r]
    /\ NormalForm(wloc[r]) \notin DOMAIN wcache

-----------------------------------------------------------------------------
(* GeminiAIController (SpecAI) *)

\* C5: a request of any of the four kinds whose provider call failed is
\* answered with status 200 and a non-empty text built locally, never with an
\* error status.
C5_ProviderFailureFallsBack ==
  \A r \in AIRequests :
    afailed[r] =>
      /\ apc[r] = "done"
      /\ acalls[r] = 1
      /\ astatus[r] = 200
      /\ atext[r] # ""
      /\ atext[r] # Null
      /\ atext[r] \notin ProviderTexts

\* C5 witness: a summary request with one failed and one successful lookup and
\* a chat request have both been answered by the fallback after the provider failed
C5_Witness ==
  \E r, q \in AIRequests :
    /\ afailed[r] /\ akind[r] = "summary" /\ astatus[r] = 200
    /\ \E i, j \in 1..Len(aresults[r]) : aresults[r][i] = "null" /\ aresults[r][j] = "data"
    /\ afailed[q] /\ akind[q] = "chat" /\ astatus[q] = 200

\* C6 as stated: a request that found a live entry under its cache key when it
\* was received is answered 200 with the cached text, with no provider call
\* and no weather lookup.
C6_LiveEntryIsServed ==
  \A r \in AIRequests :
    ahit[r].live =>
      /\ apc[r] = "done"
      /\ astatus[r] = 200
      /\ atext[r] = ahit[r].data
      /\ acalls[r] = 0
      /\ alooked[r] = 0

\* the two arrays hold the same elements, each as many times
SameElements(s, t) ==
  /\ Len(s) = Len(t)
  /\ \A x \in LocNames :
       Cardinality({i \in 1..Len(s) : s[i] = x}) = Cardinality({i \in 1..Len(t) : t[i] = x})

\* the AI request r is received in this step and passes validation
AIReceived(r) == apc[r] = "idle" /\ apc'[r] # "idle" /\ akey'[r] # "-"

\* C7: a summary request received less than the TTL after the provider answered
\* a summary request whose locations are the same elements in another order has
\* the same cache key and finds that answer live under it.
C7_SummaryKeyIgnoresOrder ==
  [][\A r \in AIRequests :
       (/\ AIReceived(r)
        /\ akind'[r] = "summary"
        /\ lastGen.valid
        /\ SameElements(abody'[r].locs, lastGen.locs)
        /\ now - lastGen.at < CACHE_TTL)
       => /\ akey'[r] = lastGen.key
          /\ ahit'[r].live
          /\ ahit'[r].data = lastGen.text]_vars

\* C7 witness: a summary request served from the entry cached for a request
\* that sent the same locations in another order
C7_Witness ==
  \E r \in AIRequests :
    /\ akind[r] = "summary"
    /\ lastGen.valid
    /\ abody[r].locs # lastGen.locs
    /\ SameElements(abody[r].locs, lastGen.locs)
    /\ akey[r] = lastGen.key
    /\ ahit[r].live
    /\ apc[r] = "done"
    /\ atext[r] = lastGen.text
    /\ acalls[r] = 0

\* the request has gathered weather and resumed after its lookups
Resumed(r) == alooked[r] > 0 /\ apc[r] \in {"gemini", "done"}

\* C8 as stated: every request that gathered weather has sent its prompt only
\* after all its lookups completed, and has sent it whatever the lookups
\* returned, with a placeholder part for every location whose lookup failed.
C8_FailedLookupBecomesPlaceholder ==
  \A r \in AIRequests :
    /\ acalls[r] > 0 => allSettled(aresults[r])
    /\ Resumed(r) =>
         /\ acalls[r] = 1
         /\ Len(acontext[r]) = alooked[r]
         /\ \A i \in 1..alooked[r] :
              aresults[r][i] = "null" =>
                acontext[r][i] = UnavailablePart(LookupLocations(akind[r], abody[r], alocs[r])[i])

\* the lookups of r that returned data
Succeeded(r) == {i \in 1..Len(aresults[r]) : aresults[r][i] = "data"}

\* C8 amended: every lookup is issued at once and the prompt is sent only after
\* all of them completed.  Chat replaces a failed location by the placeholder
\* and always proceeds to the provider.  Summary leaves failed locations out of
\* the context and proceeds only if at least one lookup succeeded, otherwise it
\* answers 400 without a provider call.  Trivia answers 400 without a provider
\* call when its lookup failed.
C8_LookupFailureByKind ==
  \A r \in AIRequests :
    LET locs == LookupLocations(akind[r], abody[r], alocs[r]) IN
    /\ acalls[r] > 0 => allSettled(aresults[r])
    /\ apc[r] = "weather" => (alooked[r] = Len(locs) /\ Len(aresults[r]) = Len(locs) /\ acalls[r] = 0)
    /\ Resumed(r) =>
         /\ \A i \in 1..Len(aresults[r]) : aresults[r][i] # "pending"
         /\ akind[r] \in {"chat", "summary", "trivia"}
         /\ akind[r] = "chat" =>
              /\ acalls[r] = 1
              /\ Len(acontext[r]) = Len(locs)
              /\ \A i \in 1..Len(locs) :
                   acontext[r][i] = IF aresults[r][i] = "data" THEN DataPart(locs[i])
                                    ELSE UnavailablePart(locs[i])
         /\ akind[r] \in {"summary", "trivia"} =>
              IF Succeeded(r) = {}
                THEN acalls[r] = 0 /\ astatus[r] = 400 /\ acontext[r] = <<>>
                ELSE /\ acalls[r] = 1
                     /\ Len(acontext[r]) = Cardinality(Succeeded(r))
                     /\ \A j \in 1..Len(acontext[r]) :
                          \E i \in Succeeded(r) : acontext[r][j] = DataPart(locs[i])

\* C8 witness: a chat request waiting for the provider with the placeholder in
\* its context after its lookup failed, while a summary request waits for the
\* provider with only the location whose lookup succeeded in its context
C8_Witness ==
  \E r, q \in AIRequests :
    /\ akind[r] = "chat"
    /\ apc[r] = "gemini"
    /\ aresults[r] = <<"null">>
    /\ acontext[r] = <<UnavailablePart(alocs[r][1])>>
    /\ akind[q] = "summary"
    /\ apc[q] = "gemini"
    /\ aresults[q] = <<"null", "data">>
    /\ acontext[q] = <<DataPart(alocs[q][2])>>

-----------------------------------------------------------------------------
(* WidgetController.createWidget (SpecWidget) *)

\* C9 as stated, for locations whose trimmed length the schema accepts: a
\* create answers 400 and stores nothing when location is not a string, is
\* empty or is whitespace-only; answers 409 and stores nothing when, at its
\* duplicate query, a stored location equalled the trimmed input ignoring case;
\* and otherwise stores exactly one widget with the trimmed location and
\* answers 201.
C9_CreateStatusByInput ==
  \A r \in Creates :
    cpc[r] = "done" =>
      IF cinput[r].type # "string" \/ trim(cinput[r].str) = <<>>
        THEN cstatus[r] = 400 /\ csaved[r] = {}
      ELSE IF cdup[r]
        THEN cstatus[r] = 409 /\ csaved[r] = {}
      ELSE IF Len(trim(cinput[r].str)) \in MinLength..MaxLength
        THEN /\ cstatus[r] = 201
             /\ Cardinality(csaved[r]) = 1
             /\ \A w \in csaved[r] : w.location = trim(cinput[r].str) /\ w \in widgets
      ELSE TRUE

\* C10 as stated: the widget store never holds two widgets whose locations are
\* equal ignoring case.
C10_NoDuplicateLocations ==
  \A w1, w2 \in widgets :
    w1.id # w2.id => toLowerCase(w1.location) # toLowerCase(w2.location)


-----------------------------------------------------------------------------
(* WidgetController.getWidgetById, deleteWidget (SpecWidget) *)

\* the by-id request r is received in this step
ByIdReceived(r) == dpc[r] = "idle" /\ dpc'[r] # "idle"

\* the query of the by-id request r is answered in this step
ByIdAnswered(r) == dpc[r] \in {"finding", "deleting"} /\ dpc'[r] = "done"

\* the id is exactly 24 characters, each a hexadecimal digit
WellFormedId(id) == Len(id) = 24 /\ \A i \in 1..Len(id) : IsHexChar(id[i])

\* the widgets of the collection that the id names
Named(id, store) == {w \in store : ObjectIdHex(w.id) = toLowerCase(id)}

\* C11: read-by-id and delete-by-id answer 400 without querying the store when
\* the id is not exactly 24 hexadecimal characters; when the id is well-formed
\* and names no widget they answer 404 and the collection is unchanged; when a
\* delete-by-id names a widget it removes exactly that widget and returns it
\* with status 200.
C11_ByIdStatus ==
  [][\A r \in ByIds :
       /\ (ByIdReceived(r) /\ ~WellFormedId(did'[r]))
          => /\ dpc'[r] = "done"
             /\ dstatus'[r] = 400
             /\ ~dqueried'[r]
             /\ widgets' = widgets
       /\ (ByIdReceived(r) /\ WellFormedId(did'[r]))
          => /\ dpc'[r] # "done"
             /\ dqueried'[r]
       /\ (ByIdAnswered(r) /\ Named(did[r], widgets) = {})
          => /\ dstatus'[r] = 404
             /\ widgets' = widgets
       /\ (ByIdAnswered(r) /\ Named(did[r], widgets) # {} /\ dop[r] = "deleteWidget")
          => /\ dstatus'[r] = 200
             /\ Cardinality(Named(did[r], widgets)) = 1
             /\ dbody'[r] = Named(did[r], widgets)
             /\ widgets' = widgets \ Named(did[r], widgets)
    ]_vars

\* C11 witness: a delete-by-id whose id is written in upper case has removed the
\* widget it names from a collection of several widgets and returned it
C11_Witness ==
  \E r \in ByIds :
    /\ dpc[r] = "done" /\ dop[r] = "deleteWidget" /\ dstatus[r] = 200
    /\ did[r] # toLowerCase(did[r])
    /\ Cardinality(dbefore[r]) > 1
    /\ dbody[r] \subseteq dbefore[r] /\ Cardinality(dbody[r]) = 1
    /\ dbody[r] \cap widgets = {}

-----------------------------------------------------------------------------
(* CacheService: clearExpired, getStats, getAllValid, delete (SpecCache) *)

\* the age, at the instant of the call in lastOp, of the entry that call found
\* under k
AgeBefore(k) == now - before[k].timestamp

\* C12: a sweep (clearExpired) removes every entry whose age exceeds the
\* configured duration and leaves every other entry (key, value and timestamp)
\* as it was; when every stored entry is expired the map is empty afterwards.
C12_SweepRemovesExpiredOnly ==
  lastOp.op = "clearExpired" =>
    /\ DOMAIN cache \subseteq DOMAIN before
    /\ \A k \in DOMAIN before :
         IF AgeBefore(k) > CacheDuration
           THEN k \notin DOMAIN cache
           ELSE k \in DOMAIN cache /\ cache[k] = before[k]
    /\ (\A k \in DOMAIN before : AgeBefore(k) > CacheDuration)
         => Cardinality(DOMAIN cache) = 0

\* C12 witness: a sweep has found one entry older than the duration and one
\* whose age is exactly the duration, removed the first and kept the second
C12_Witness ==
  /\ lastOp.op = "clearExpired"
  /\ \E k1, k2 \in DOMAIN before :
       /\ AgeBefore(k1) > CacheDuration
       /\ AgeBefore(k2) = CacheDuration
       /\ DOMAIN cache = {k2}
       /\ cache[k2] = before[k2]

\* the map holds, under k, an entry older than the configured duration
ExpiredEntry(k) == k \in DOMAIN cache /\ now - cache[k].timestamp > CacheDuration

\* C13: at most one entry is stored for a key, and an entry that has become
\* older than the configured duration is eventually gone from the map, by the
\* periodic sweep alone if no other call touches its key (under weak fairness
\* of the sweep timer).
C13_ExpiredEntryEventuallySwept ==
  /\ [](\A k \in Keys : Cardinality({x \in DOMAIN cache : cache[x].key = k}) <= 1)
  /\ \A k \in Keys : ExpiredEntry(k) ~> ~ExpiredEntry(k)

\* C13 witness: a sweep has found every stored key expired, still in the map
\* (so no get or has touched them since they expired), and removed them all
C13_Witness ==
  /\ lastOp.op = "clearExpired"
  /\ DOMAIN before = Keys
  /\ \A k \in Keys : AgeBefore(k) > CacheDuration
  /\ \A k \in Keys : ~ExpiredEntry(k) /\ k \notin DOMAIN cache

\* C14 as stated: the counts getStats reports (validItems + expiredItems, equal
\* to totalItems) sum to the number of entries inserted minus the number of
\* explicit deletions, and getStats does not change the map.
C14_StatsSumInsertedMinusDeleted ==
  lastOp.op = "getStats" =>
    /\ lastRet.stats.validItems + lastRet.stats.expiredItems = lastRet.stats.totalItems
    /\ lastRet.stats.totalItems = ninserted - ndeleted
    /\ cache = before

\* C14 amended: the counts getStats reports sum to the number of entries stored,
\* which is the number of entries inserted minus the number removed, by delete
\* and clear or by the eviction of an expired entry in get, has and the sweep;
\* validItems counts the entries no older than the duration; getStats does not
\* change the map.
C14_StatsSumStoredEntries ==
  lastOp.op = "getStats" =>
    /\ lastRet.stats.validItems + lastRet.stats.expiredItems = lastRet.stats.totalItems
    /\ lastRet.stats.totalItems = Cardinality(DOMAIN cache)
    /\ lastRet.stats.totalItems = ninserted - ndeleted - nevicted
    /\ lastRet.stats.validItems =
         Cardinality({k \in DOMAIN cache : now - cache[k].timestamp <= CacheDuration})
    /\ cache = before

\* C14 witness: getStats has reported a valid and an expired entry after an
\* expired entry was evicted
C14_Witness ==
  /\ lastOp.op = "getStats"
  /\ lastRet.stats.validItems > 0
  /\ lastRet.stats.expiredItems > 0
  /\ nevicted > 0

\* C18 as stated: the periodic sweep can be stopped: once the owner of the cache
\* has asked for it, no further background sweep runs.
C18_SweepStoppable ==
  [][stopRequested => lastOp'.op # "clearExpired"]_vars

\* C19: getAllValid returns exactly the entries whose age does not exceed the
\* configured duration, each with its key, value and age, and leaves the map
\* unchanged; an entry leaves the map only by a get, has or delete of its key,
\* a clear or a sweep.
C19_SnapshotReturnsValidOnly ==
  /\ lastOp.op = "getAllValid" =>
       /\ \A k \in DOMAIN before :
            (AgeBefore(k) <= CacheDuration) <=> (\E e \in lastRet.valid : e.key = k)
       /\ \A e \in lastRet.valid :
            /\ e.key \in DOMAIN before
            /\ e.data = before[e.key].data
            /\ e.age = AgeBefore(e.key)
       /\ Cardinality(lastRet.valid) <= Cardinality(DOMAIN before)
       /\ cache = before
  /\ \A k \in DOMAIN before :
       k \notin DOMAIN cache =>
         \/ lastOp.op \in {"get", "has", "delete"} /\ lastOp.key = k
         \/ lastOp.op \in {"clear", "clearExpired"}

\* C19 witness: getAllValid has returned an entry whose age is exactly the
\* duration and left an older entry in the map
C19_Witness ==
  /\ lastOp.op = "getAllValid"
  /\ \E e \in lastRet.valid : e.age = CacheDuration
  /\ \E k \in DOMAIN cache : ExpiredEntry(k) /\ \A e \in lastRet.valid : e.key # k

\* C20: delete(k) returns true exactly when an entry for k is stored at the
\* time of the call, expired or not; afterwards k has no entry and the entry of
\* every other key is as it was.
C20_DeleteReportsRemoval ==
  lastOp.op = "delete" =>
    /\ lastOp.present <=> (lastOp.key \in DOMAIN before)
    /\ lastOp.key \notin DOMAIN cache
    /\ \A k \in Keys \ {lastOp.key} :
         /\ (k \in DOMAIN cache) <=> (k \in DOMAIN before)
         /\ k \in DOMAIN before => cache[k] = before[k]

\* C20 witness: delete has returned true for an expired entry while another key
\* keeps its entry
C20_Witness ==
  /\ lastOp.op = "delete"
  /\ lastOp.present
  /\ lastOp.age > CacheDuration
  /\ \E k \in DOMAIN cache : k # lastOp.key /\ cache[k] = before[k]

-----------------------------------------------------------------------------
(* WeatherService.getWeatherIcon, getWeatherDescription (SpecCodes) *)

\* the emoji of each kind of weather, by name
IconOf(kind) ==
  CASE kind = "clear" -> "sun"
    [] kind = "partly cloudy" -> "sun behind cloud"
    [] kind = "fog" -> "fog"
    [] kind = "rain" -> "rain"
    [] kind = "snow" -> "snow"
    [] kind = "rain showers" -> "sun behind rain cloud"
    [] kind = "thunderstorm" -> "thunder cloud"
    [] kind = "default" -> "sun behind small cloud"

\* the codes that have an entry in the description table
DescribedCodes ==
  {0, 1, 2, 3, 45, 48, 51, 53, 55, 61, 63, 65, 71, 73, 75, 80, 81, 82, 95, 96, 99}

\* the upper ends of the icon ranges, in the order the rules are tried
IconRules ==
  << [upTo |-> 3, kind |-> "partly cloudy"], [upTo |-> 48, kind |-> "fog"],
     [upTo |-> 67, kind |-> "rain"], [upTo |-> 77, kind |-> "snow"],
     [upTo |-> 82, kind |-> "rain showers"], [upTo |-> 99, kind |-> "thunderstorm"] >>

\* the kind of weather of the first rule that matches the code
FirstMatch(c) ==
  IF c = 0 THEN "clear"
  ELSE IF \E i \in 1..Len(IconRules) : c <= IconRules[i].upTo
    THEN IconRules[CHOOSE i \in 1..Len(IconRules) :
                     /\ c <= IconRules[i].upTo
                     /\ \A j \in 1..(i - 1) : c > IconRules[j].upTo].kind
  ELSE "default"

\* C15: for every integer weather code the icon is that of the first matching
\* rule (0 clear, <= 3 partly cloudy, <= 48 fog, <= 67 rain, <= 77 snow, <= 82
\* rain showers, <= 99 thunderstorm, otherwise the default icon), and the
\* description is a table entry for the codes of the table and "Unknown" for
\* every other code: 0 gives "Clear sky", 96 gives "Thunderstorm with hail", 10
\* gives the fog icon and "Unknown".
C15_IconAndDescriptionByCode ==
  qderived =>
    /\ qicon = IconOf(FirstMatch(qcode))
    /\ (qdescription = "Unknown") <=> (qcode \notin DescribedCodes)
    /\ qcode = 0 => qdescription = "Clear sky"
    /\ qcode = 96 => qdescription = "Thunderstorm with hail"
    /\ qcode = 10 => (qicon = IconOf("fog") /\ qdescription = "Unknown")

\* C15 witness: code 10 has been given the fog icon and the description "Unknown"
C15_Witness ==
  /\ qderived
  /\ qcode = 10
  /\ qicon = "fog"
  /\ qdescription = "Unknown"

-----------------------------------------------------------------------------
(* WeatherService under concurrent lookups, the sweep and cache/clear (SpecWeather) *)

\* the snapshots a lookup can build from one geocode result and one forecast
WholeSnapshots == {weatherInfo(g, c) : g \in GeoNames, c \in WeatherCodes}

\* C16: under any interleaving of concurrent lookups, the periodic sweep and
\* cache/clear requests, switching only at the network awaits and at timer
\* callbacks, no partial or torn entry is stored or returned: an entry of the
\* cache is, as a whole (key, value and timestamp), what one successful lookup
\* of its key wrote, a lookup is never suspended inside a cache operation, and
\* a lookup that has ended returns a snapshot built from one geocode result and
\* one forecast.
C16_NoTornEntry ==
  /\ \A k \in DOMAIN wcache :
       /\ k \in WeatherKeys
       /\ lastOk[k].valid
       /\ wcache[k] = [data |-> lastOk[k].data, timestamp |-> lastOk[k].at, key |-> k]
       /\ wcache[k].data \in WholeSnapshots
       /\ wcache[k].timestamp <= now
  /\ \A r \in Lookups :
       /\ wpc[r] \in {"idle", "geocoding", "fetching", "done", "failed"}
       /\ wpc[r] = "done" => wresult[r] \in WholeSnapshots

\* C16 witness: two lookups of the same key were in flight together; one has
\* stored its snapshot over an entry the other had found expired, and the other
\* is still waiting for its forecast
C16_Witness ==
  \E r, q \in Lookups :
    /\ r # q
    /\ wpc[r] = "done" /\ wstored[r]
    /\ wpc[q] = "fetching" /\ wothers[q] /\ wevicted[q]
    /\ NormalForm(wloc[r]) = NormalForm(wloc[q])
    /\ NormalForm(wloc[r]) \in DOMAIN wcache

\* the key k was stored by a successful lookup no longer ago than the duration
FreshKey(k) == lastOk[k].valid /\ now - lastOk[k].at <= CacheDuration

-----------------------------------------------------------------------------
(* GeminiAIController: what the response cache holds (SpecAI) *)

\* the provider call of the request r fails in this step
ProviderFails(r) == apc[r] = "gemini" /\ apc'[r] = "done" /\ afailed'[r]

\* a request with this key received now would be served from the cache
Served(m, key) ==
  /\ key \in DOMAIN m
  /\ now - m[key].timestamp < CACHE_TTL
  /\ m[key].data # ""

\* the request r, received in this step, has the key of a request that failed
\* at the provider, with nothing stored under that key since
Retry(r) ==
  \E q \in AIRequests \ {r} :
    apc[q] = "done" /\ afailed[q] /\ akey[q] = akey'[r] /\ ~aothers[q]

-----------------------------------------------------------------------------
(* Concurrent lookups of one key (SpecWeather) *)

\* another lookup of the key k, not r, has sent its requests and has not ended
InFlight(r, k) ==
  \E q \in Lookups \ {r} :
    wpc[q] \in {"geocoding", "fetching"} /\ NormalForm(wloc[q]) = k

\* the lookup r ends with the snapshot it built
Completes(r) == wpc[r] = "fetching" /\ wpc'[r] = "done"

\* C22: when two weather lookups for the same normalized key are in flight at
\* once on a cache miss, neither waits for the other: a lookup received on a
\* miss while another lookup of its key is in flight sends its own geocode
\* request at once, a lookup in flight goes on to its forecast request and to
\* its end whatever the other one does, and each writes the cache when it
\* completes, so the entry left under the key (value and timestamp) is the one
\* written by the lookup that completed last.
C22_LastCompleterWins ==
  [][/\ \A r \in Lookups :
          /\ (Received(r) /\ wpc'[r] # "done" /\ InFlight(r, NormalForm(wloc'[r]))) =>
               /\ wpc'[r] = "geocoding"
               /\ wnet'[r]
               /\ \A q \in Lookups \ {r} : wpc'[q] = wpc[q]
          /\ (Received(r) /\ wpc'[r] = "done") =>
               get(wcache, NormalForm(wloc'[r]), now).present
          /\ (wpc[r] = "geocoding" /\ wpc'[r] # "geocoding") =>
               /\ wpc'[r] \in {"fetching", "failed"}
               /\ wcache' = wcache
          /\ Completes(r) =>
               LET k == NormalForm(wloc[r]) IN
               /\ wstored'[r]
               /\ k \in DOMAIN wcache'
               /\ wcache'[k] = [data |-> wresult'[r], timestamp |-> now, key |-> k]
               /\ \A x \in DOMAIN wcache' \ {k} : x \in DOMAIN wcache /\ wcache'[x] = wcache[x]
     /\ wcache' # wcache =>
          \A k \in DOMAIN wcache \cap DOMAIN wcache' :
            wcache'[k] # wcache[k] =>
              \E q \in Lookups :
                /\ Completes(q) /\ NormalForm(wloc[q]) = k
                /\ wcache'[k].data = wresult'[q] ]_vars

\* C22 witness: two lookups of one key missed and were in flight together with
\* different forecasts; r completed first and q after it, and the entry under
\* the key is q's snapshot with q's completion time
C22_Witness ==
  \E r, q \in Lookups :
    /\ r # q
    /\ wpc[r] = "done" /\ wstored[r] /\ ~wothers[r]
    /\ wpc[q] = "done" /\ wstored[q] /\ wothers[q]
    /\ NormalForm(wloc[r]) = NormalForm(wloc[q])
    /\ wresult[r] # wresult[q]
    /\ NormalForm(wloc[q]) \in DOMAIN wcache
    /\ wcache[NormalForm(wloc[q])].data = wresult[q]
    /\ wcache[NormalForm(wloc[q])].timestamp > 0
-----------------------------------------------------------------------------
(* Entries of the AI response cache (SpecAI) *)

\* the age of the AI cache entry under key
AIAge(key) == now - aiCache[key].timestamp

\* the request r stores the text the provider answered
Stores(r) == apc[r] = "gemini" /\ apc'[r] = "done" /\ ~afailed'[r]

\* C23: in the AI response cache an entry whose age has reached 5 minutes is
\* treated as absent on read (the request is answered as on a miss) but is not
\* removed by the read, and nothing sweeps the cache: an entry leaves it only
\* by being overwritten under its key by a request storing the provider's
\* answer, so every key stays and the number of keys never decreases.
C23_AIEntriesOnlyOverwritten ==
  [][/\ DOMAIN aiCache \subseteq DOMAIN aiCache'
     /\ Cardinality(DOMAIN aiCache') >= Cardinality(DOMAIN aiCache)
     /\ \A r \in AIRequests :
          (AIReceived(r) /\ akey'[r] \in DOMAIN aiCache /\ AIAge(akey'[r]) >= CACHE_TTL) =>
            /\ apc'[r] \in {"weather", "gemini"}
            /\ aiCache' = aiCache
     /\ aiCache' # aiCache =>
          \E r \in AIRequests :
            /\ Stores(r)
            /\ aiCache'[akey[r]] = [data |-> atext'[r], timestamp |-> now]
            /\ \A k \in DOMAIN aiCache \ {akey[r]} : aiCache'[k] = aiCache[k] ]_vars

\* C23 witness: a request was received when the entry under its key, a
\* non-empty text no other request has stored since, was exactly 5 minutes
\* old; it missed and has called the provider, and the entry is still stored
C23_Witness ==
  \E r \in AIRequests :
    /\ apc[r] = "gemini" /\ acalls[r] = 1 /\ ~aothers[r] /\ ~ahit[r].live
    /\ akey[r] \in DOMAIN aiCache
    /\ aiCache[akey[r]].data # ""
    /\ AIAge(akey[r]) = CACHE_TTL
====
